---- MODULE Spec2Model ----
(***************************************************************************)
(* Model of the PDF generators of the Markdown-to-PDF converter:           *)
(*   advancedGeneratePDF, simpleGeneratePDF   (src/app/layout.tsx)         *)
(*   generatePDF, prepareElementForCapture    (src/utils/pdfGenerator.ts)  *)
(*   debugElement                             (utils/debugPdf)             *)
(*                                                                         *)
(* A run of a generator is a JavaScript async function: the code between   *)
(* two awaits is one or more actions of the run, and an await is a pc      *)
(* value at which the run is suspended until the awaited frame, timer,     *)
(* load event or rasterizer answers.  The DOM (inline styles of the        *)
(* element and of its parent, scrollTop) is shared state.  The libraries   *)
(* (html2canvas, jsPDF, URL, document) are the environment: what they      *)
(* return, and whether they throw, is chosen nondeterministically.         *)
(*                                                                         *)
(* Numbers: raster sizes are integers; the lengths the code derives from   *)
(* them by * and / are modelled as exact rationals <<num, den>>.           *)
(***************************************************************************)
EXTENDS Integers, Sequences, FiniteSets, TLC

(***************************************************************************)
(* Bounds of the model.                                                    *)
(***************************************************************************)
MaxCanvasW == 2
MaxCanvasH == 5
MaxContentW == 2
MaxContentH == 3
MaxTextLen == 2

(***************************************************************************)
(* Program constants.                                                      *)
(***************************************************************************)
AdvMargin == 10
SimpleMargin == 15
GenMargin == 15
AdvDelayMs == 200
SimpleDelayMs == 100
GenSettleMs == 500
MinImgDataLen == 100

\* clicks on Download PDF in one behaviour
MaxTriggers == 3

\* rows of the canvas when two runs overlap
MaxRaceCanvasH == 2

\* parts ("a", ".md", ".txt") of a file name, and files chosen in one behaviour
MaxNameParts == 2
MaxUploads == 2

RunIds == {1, 2}

(***************************************************************************)
(* Exact rational arithmetic, for the JavaScript number expressions.       *)
(***************************************************************************)
RECURSIVE GCD(_, _)
GCD(a, b) == IF b = 0 THEN a ELSE GCD(b, a % b)

Abs(i) == IF i < 0 THEN -i ELSE i

\* n/d in lowest terms with a positive denominator (d # 0)
RNorm(n, d) ==
    LET g == GCD(Abs(n), Abs(d))
        s == IF d < 0 THEN -1 ELSE 1
    IN  <<(s * n) \div g, (s * d) \div g>>

RInt(i) == <<i, 1>>
RMul(a, b) == RNorm(a[1] * b[1], a[2] * b[2])
RDiv(a, b) == RNorm(a[1] * b[2], a[2] * b[1])
RAdd(a, b) == RNorm(a[1] * b[2] + b[1] * a[2], a[2] * b[2])
RSub(a, b) == RNorm(a[1] * b[2] - b[1] * a[2], a[2] * b[2])
RNeg(a) == <<-a[1], a[2]>>
RLe(a, b) == a[1] * b[2] <= b[1] * a[2]
RLt(a, b) == a[1] * b[2] < b[1] * a[2]
RMin(a, b) == IF RLe(a, b) THEN a ELSE b
\* Math.ceil
RCeil(a) == -((-a[1]) \div a[2])
\* the integer part kept when a number is stored in canvas.width / canvas.height
RTrunc(a) == IF a[1] >= 0 THEN a[1] \div a[2] ELSE -((-a[1]) \div a[2])

(***************************************************************************)
(* Text content and String.prototype.trim.                                 *)
(***************************************************************************)
Chars == {" ", "a"}
IsSpace(c) == c = " "

RECURSIVE SeqsUpTo(_)
SeqsUpTo(n) ==
    IF n = 0 THEN {<<>>}
    ELSE LET S == SeqsUpTo(n - 1)
         IN  S \cup {Append(s, c) : s \in {t \in S : Len(t) = n - 1}, c \in Chars}

Texts == SeqsUpTo(MaxTextLen)

\* the texts of at most one character: empty, whitespace-only, with content
ShortTexts == { t \in Texts : Len(t) <= 1 }

RECURSIVE TrimStart(_)
TrimStart(s) ==
    IF s # <<>> /\ IsSpace(Head(s)) THEN TrimStart(Tail(s)) ELSE s

RECURSIVE TrimEnd(_)
TrimEnd(s) ==
    IF s # <<>> /\ IsSpace(s[Len(s)]) THEN TrimEnd(SubSeq(s, 1, Len(s) - 1)) ELSE s

Trim(s) == TrimEnd(TrimStart(s))

\* faulty variant: the content test without trim()
NoTextContentUntrimmed(text) == text = <<>>

\* !element.textContent?.trim()
NoTextContent(text) == Trim(text) = <<>>

(***************************************************************************)
(* Inline styles.                                                          *)
(***************************************************************************)
ElementStyles ==
    { [overflow |-> "", height |-> "", maxHeight |-> ""],
      [overflow |-> "auto", height |-> "600px", maxHeight |-> "600px"],
      [overflow |-> "visible", height |-> "auto", maxHeight |-> "none"] }

ParentStyles ==
    { [overflow |-> "", height |-> "", maxHeight |-> ""],
      [overflow |-> "auto", height |-> "600px", maxHeight |-> "80vh"] }

NoSnapshot ==
    [overflow |-> "", height |-> "", maxHeight |-> "",
     parentOverflow |-> "", parentHeight |-> ""]

(***************************************************************************)
(* The progress callback and the calls a run makes, in order.              *)
(***************************************************************************)
Ev(op, msg, k, n) == [op |-> op, msg |-> msg, k |-> k, n |-> n]
Call(op) == Ev(op, "", 0, 0)
Wait(op, ms) == Ev(op, "", ms, 0)
Progress(msg) == Ev("progress", msg, 0, 0)
ProgressKN(msg, k, n) == Ev("progress", msg, k, n)

\* onProgress?.(msg): nothing happens without a callback
Report(rec, ev) == IF rec.cb THEN Append(rec.log, ev) ELSE rec.log

\* a thrown value: an Error with a message, or something that is no Error
Error(msg) == [isError |-> TRUE, msg |-> msg, wrap |-> ""]
NoError == [isError |-> FALSE, msg |-> "", wrap |-> ""]

VARIABLES elStyle, parStyle, scrollTop, run, ui

vars == <<elStyle, parStyle, scrollTop, run, ui>>

IdleRun ==
    [fn |-> "none", pc |-> "idle", cb |-> FALSE, hasElem |-> FALSE, text |-> <<>>,
     preEl |-> [overflow |-> "", height |-> "", maxHeight |-> ""],
     prePar |-> [overflow |-> "", height |-> "", maxHeight |-> ""],
     validated |-> FALSE, orig |-> NoSnapshot, captured |-> FALSE,
     canvasW |-> 0, canvasH |-> 0, margin |-> 0, pageW |-> 0, pageH |-> 0,
     fontsApi |-> FALSE, hasImages |-> FALSE, waited |-> {},
     imgH |-> <<0, 1>>, totalPages |-> 0, pageNum |-> 0,
     pdf |-> FALSE, pages |-> <<>>, slices |-> <<>>, saved |-> 0,
     pending |-> {}, heightLeft |-> <<0, 1>>, pageNumber |-> 0,
     blob |-> FALSE, url |-> "none", link |-> "none", downloads |-> 0,
     thrown |-> NoError, err |-> NoError, log |-> <<>>]

\* the state of the Home component after its first render: isGenerating and
\* progressMessage (useState), the value of isGenerating the last render gave
\* to the button and to the handler, the alerts shown, the pending timers that
\* clear the message, the clicks so far, the preview element; fileName and
\* markdownContent (useState; 0 is the default text), the file reads under
\* way, the files chosen so far, the content of the file named in fileName,
\* the handler's pdfFileName and the name of the last file saved
IdleUI ==
    [isGenerating |-> FALSE, rendered |-> FALSE, progressMessage |-> Progress(""),
     alerts |-> <<>>, timers |-> 0, triggers |-> 0, dropped |-> 0,
     previewRef |-> TRUE, text |-> <<>>,
     fileName |-> <<>>, markdownContent |-> 0, reads |-> {}, uploads |-> 0,
     loaded |-> 0, pdfFileName |-> <<>>, savedAs |-> <<>>]

Init ==
    /\ elStyle \in ElementStyles
    /\ parStyle \in ParentStyles
    /\ scrollTop \in {0, 1}
    /\ run = [r \in RunIds |-> IdleRun]
    /\ ui = IdleUI

Set(r, rec) == run' = [run EXCEPT ![r] = rec]

(***************************************************************************)
(* Page geometry shared by the generators.                                 *)
(***************************************************************************)
\* pdf.internal.pageSize.getWidth() / getHeight(): sizes leaving a content area
PageWidths(margin) == {2 * margin + c : c \in 1..MaxContentW}
PageHeights(margin) == {2 * margin + c : c \in 1..MaxContentH}

ContentWidth(pageW, margin) == pageW - margin * 2
ContentHeight(pageH, margin) == pageH - margin * 2

\* imgHeight = (canvas.height * imgWidth) / canvas.width
ImgHeight(canvasH, imgW, canvasW) == RDiv(RInt(canvasH * imgW), RInt(canvasW))

\* faulty variant: the page count taken as the integer part plus one
TotalPagesTruncPlusOne(imgH, contentH) == RTrunc(RDiv(imgH, RInt(contentH))) + 1

\* Math.ceil(imgHeight / contentHeight)
TotalPages(imgH, contentH) == RCeil(RDiv(imgH, RInt(contentH)))


(***************************************************************************)
(* jsPDF document: new jsPDF() starts with one empty page; addPage appends *)
(* an empty page; addImage places an image on the last page.               *)
(***************************************************************************)
NewPdf == << <<>> >>
\* faulty variant: the new page inserted before the others
AddPageFront(pages) == << <<>> >> \o pages
AddPage(pages) == Append(pages, <<>>)
\* faulty variant: every image placed on the first page
AddImageFirstPage(pages, img) == [pages EXCEPT ![1] = Append(@, img)]
AddImage(pages, img) == [pages EXCEPT ![Len(pages)] = Append(@, img)]

\* an image placed by addImage(data, "JPEG", x, y, w, h); page, yStart and yEnd
\* record the loop index and the source rows of the canvas the data holds
Image(x, y, w, h, page, yStart, yEnd, sliced) ==
    [x |-> x, y |-> y, w |-> w, h |-> h, page |-> page,
     yStart |-> yStart, yEnd |-> yEnd, sliced |-> sliced]

\* document.createElement("canvas") with width / height set, and the drawImage
\* source rectangle (0, srcY, srcW, srcH) copied onto (0, 0, w, h); yStart and
\* yEnd are the source rows computed for the slice
Slice(w, h, yStart, yEnd, srcY, srcW, srcH) ==
    [w |-> w, h |-> h, yStart |-> yStart, yEnd |-> yEnd,
     srcY |-> srcY, srcW |-> srcW, srcH |-> srcH]

\* a throw before the try block: the call fails with the Error
Reject(rec, msg) == [rec EXCEPT !.pc = "failed", !.err = Error(msg)]

\* a throw inside the try block of advancedGeneratePDF / simpleGeneratePDF: the
\* catch logs the error and rethrows it
Throw(rec, msg) ==
    [rec EXCEPT !.pc = "failed", !.err = Error(msg), !.log = Append(@, Call("catch"))]

(***************************************************************************)
(* advancedGeneratePDF                                                     *)
(***************************************************************************)
\* faulty variant: the snapshot records nothing
AdvSnapshotEmpty(el, par) == NoSnapshot

\* originalStyles: the inline styles read before the overrides
AdvSnapshot(el, par) ==
    [overflow |-> el.overflow, height |-> el.height, maxHeight |-> el.maxHeight,
     parentOverflow |-> par.overflow, parentHeight |-> par.height]

AdvOverrideEl(el) ==
    [el EXCEPT !.overflow = "visible", !.height = "auto", !.maxHeight = "none"]

\* faulty variant: the parent's height is left as it is
AdvOverrideParOverflowOnly(par) == [par EXCEPT !.overflow = "visible"]

AdvOverridePar(par) ==
    [par EXCEPT !.overflow = "visible", !.height = "auto"]

\* faulty variant: max-height left out of the restore
AdvRestoreElNoMaxHeight(el, orig) ==
    [el EXCEPT !.overflow = orig.overflow, !.height = orig.height]

AdvRestoreEl(el, orig) ==
    [el EXCEPT !.overflow = orig.overflow, !.height = orig.height,
               !.maxHeight = orig.maxHeight]

AdvRestorePar(par, orig) ==
    [par EXCEPT !.overflow = orig.parentOverflow, !.height = orig.parentHeight]

\* faulty variant: the start row rounded down to a whole row
AdvYStartFloored(pageNum, contentH, canvasH, imgH) ==
    RInt(RTrunc(RDiv(RInt(pageNum * contentH * canvasH), imgH)))

\* yStart = (pageNum * contentHeight * canvas.height) / imgHeight
AdvYStart(pageNum, contentH, canvasH, imgH) ==
    RDiv(RInt(pageNum * contentH * canvasH), imgH)

\* faulty variant: the end row without the clamp to canvas.height
AdvYEndUnclamped(yStart, contentH, canvasH, imgH) ==
    RAdd(yStart, RDiv(RInt(contentH * canvasH), imgH))

\* yEnd = Math.min(yStart + (contentHeight * canvas.height) / imgHeight, canvas.height)
AdvYEnd(yStart, contentH, canvasH, imgH) ==
    RMin(RAdd(yStart, RDiv(RInt(contentH * canvasH), imgH)), RInt(canvasH))

\* faulty variant: the rendered height taken from the whole rows of the slice
AdvPageImgHeightWholeRows(sliceH, imgW, canvasW) ==
    RDiv(RMul(RInt(RTrunc(sliceH)), RInt(imgW)), RInt(canvasW))

\* pageImgHeight = (sliceHeight * imgWidth) / canvas.width
AdvPageImgHeight(sliceH, imgW, canvasW) ==
    RDiv(RMul(sliceH, RInt(imgW)), RInt(canvasW))

\* faulty variant: the single-page test with < in place of <=
AdvFitsOnePageStrict(imgH, contentH) == RLt(imgH, RInt(contentH))

\* imgHeight <= contentHeight
AdvFitsOnePage(imgH, contentH) == RLe(imgH, RInt(contentH))

\* the call and the validation of its inputs, then the style override and the
\* first frame yield
AdvStart(r) ==
    /\ run[r].pc = "idle"
    /\ \E cb \in BOOLEAN, hasElem \in BOOLEAN, text \in Texts :
        /\ hasElem \/ text = <<>>
        /\ LET r0 == [run[r] EXCEPT !.fn = "advanced", !.cb = cb,
                          !.hasElem = hasElem, !.text = text,
                          !.preEl = elStyle, !.prePar = parStyle,
                          !.margin = AdvMargin]
               r1 == [r0 EXCEPT !.log = Report(r0, Progress("Preparing content..."))]
           IN  IF ~hasElem
               THEN /\ Set(r, Reject(r1, "No element provided"))
                    /\ UNCHANGED <<elStyle, parStyle>>
               ELSE IF NoTextContent(text)
               THEN /\ Set(r, Reject(r1, "Element has no content"))
                    /\ UNCHANGED <<elStyle, parStyle>>
               ELSE /\ Set(r, [r1 EXCEPT !.pc = "adv_raf1", !.validated = TRUE,
                                   !.orig = AdvSnapshot(elStyle, parStyle)])
                    /\ elStyle' = AdvOverrideEl(elStyle)
                    /\ parStyle' = AdvOverridePar(parStyle)
    /\ UNCHANGED scrollTop

\* await requestAnimationFrame (first)
AdvRaf1(r) ==
    /\ run[r].pc = "adv_raf1"
    /\ Set(r, [run[r] EXCEPT !.pc = "adv_timer1", !.log = Append(@, Call("raf"))])
    /\ UNCHANGED <<elStyle, parStyle, scrollTop>>

\* await setTimeout 200 (first)
AdvTimer1(r) ==
    /\ run[r].pc = "adv_timer1"
    /\ Set(r, [run[r] EXCEPT !.pc = "adv_raf2",
                   !.log = Append(@, Wait("timeout", AdvDelayMs))])
    /\ UNCHANGED <<elStyle, parStyle, scrollTop>>

\* await requestAnimationFrame (second)
AdvRaf2(r) ==
    /\ run[r].pc = "adv_raf2"
    /\ Set(r, [run[r] EXCEPT !.pc = "adv_timer2", !.log = Append(@, Call("raf"))])
    /\ UNCHANGED <<elStyle, parStyle, scrollTop>>

\* await setTimeout 200 (second), then the progress report and the call of
\* html2canvas
AdvTimer2(r) ==
    /\ run[r].pc = "adv_timer2"
    /\ LET r1 == [run[r] EXCEPT !.log = Append(@, Wait("timeout", AdvDelayMs))]
           r2 == [r1 EXCEPT !.log = Report(r1, Progress("Capturing content..."))]
       IN  Set(r, [r2 EXCEPT !.pc = "adv_capture", !.log = Append(@, Call("html2canvas"))])
    /\ UNCHANGED <<elStyle, parStyle, scrollTop>>

\* html2canvas rejects: the catch rethrows, nothing after the await runs
AdvCaptureReject(r) ==
    /\ run[r].pc = "adv_capture"
    /\ Set(r, Throw(run[r], "html2canvas failed"))
    /\ UNCHANGED <<elStyle, parStyle, scrollTop>>

\* html2canvas resolves with a canvas: styles are restored, the canvas is
\* validated, the document is created and the page geometry computed
AdvCaptureResolve(r) ==
    /\ run[r].pc = "adv_capture"
    /\ \E w \in 0..MaxCanvasW, h \in 0..MaxCanvasH,
          pw \in PageWidths(AdvMargin), ph \in PageHeights(AdvMargin) :
        LET r1 == [run[r] EXCEPT !.captured = TRUE, !.canvasW = w, !.canvasH = h,
                       !.log = Append(@, Call("restore"))]
        IN  /\ elStyle' = AdvRestoreEl(elStyle, run[r].orig)
            /\ parStyle' = AdvRestorePar(parStyle, run[r].orig)
            /\ IF w = 0 \/ h = 0
               THEN /\ pw = 2 * AdvMargin + 1 /\ ph = 2 * AdvMargin + 1
                    /\ Set(r, Throw(r1, "Failed to capture content - canvas is empty"))
               ELSE LET r2 == [r1 EXCEPT !.log = Report(r1, Progress("Creating PDF..."))]
                        contentW == ContentWidth(pw, AdvMargin)
                        contentH == ContentHeight(ph, AdvMargin)
                        imgH == ImgHeight(h, contentW, w)
                        r3 == [r2 EXCEPT !.pdf = TRUE, !.pages = NewPdf,
                                   !.pageW = pw, !.pageH = ph, !.imgH = imgH,
                                   !.log = Append(@, Call("newPdf"))]
                    IN  IF AdvFitsOnePage(imgH, contentH)
                        THEN Set(r, [r3 EXCEPT !.pc = "adv_single"])
                        ELSE Set(r, [r3 EXCEPT !.pc = "adv_loop", !.pageNum = 0,
                                         !.totalPages = TotalPages(imgH, contentH)])
    /\ UNCHANGED scrollTop

\* single page: the whole canvas is added once at the margin offset
AdvSingle(r) ==
    /\ run[r].pc = "adv_single"
    /\ \E ok \in BOOLEAN :
        LET rec == run[r]
            imgW == ContentWidth(rec.pageW, AdvMargin)
            img == Image(AdvMargin, AdvMargin, imgW, rec.imgH,
                         0, RInt(0), RInt(rec.canvasH), FALSE)
            r1 == [rec EXCEPT !.log = Append(@, Call("addImage"))]
            r2 == [r1 EXCEPT !.pages = AddImage(@, img)]
        IN  IF ~ok
            THEN Set(r, Throw(r1, "addImage failed"))
            ELSE Set(r, [r2 EXCEPT !.pc = "adv_save",
                             !.log = Report(r2, Progress("PDF created successfully!"))])
    /\ UNCHANGED <<elStyle, parStyle, scrollTop>>

\* one iteration of the multi-page loop, and the loop's exit after the last one
AdvPage(r) ==
    /\ run[r].pc = "adv_loop"
    /\ run[r].pageNum < run[r].totalPages
    /\ \E ok \in BOOLEAN :
        LET rec == run[r]
            p == rec.pageNum
            imgW == ContentWidth(rec.pageW, AdvMargin)
            contentH == ContentHeight(rec.pageH, AdvMargin)
            yStart == AdvYStart(p, contentH, rec.canvasH, rec.imgH)
            yEnd == AdvYEnd(yStart, contentH, rec.canvasH, rec.imgH)
            sliceH == RSub(yEnd, yStart)
            pageCanvas == Slice(rec.canvasW, RTrunc(sliceH), yStart, yEnd,
                                yStart, rec.canvasW, sliceH)
            img == Image(AdvMargin, AdvMargin, imgW,
                         AdvPageImgHeight(sliceH, imgW, rec.canvasW),
                         p, yStart, yEnd, TRUE)
            r1 == [rec EXCEPT !.log = Report(rec, ProgressKN("Creating page", p + 1,
                                                             rec.totalPages))]
            r2 == IF p > 0
                  THEN [r1 EXCEPT !.pages = AddPage(@), !.log = Append(@, Call("addPage"))]
                  ELSE r1
            r3 == [r2 EXCEPT !.slices = Append(@, pageCanvas),
                       !.log = Append(@, Call("addImage"))]
            r4 == [r3 EXCEPT !.pages = AddImage(@, img), !.pageNum = p + 1]
        IN  IF ~ok
            THEN Set(r, Throw(r3, "addImage failed"))
            ELSE IF p + 1 < rec.totalPages
            THEN Set(r, r4)
            ELSE Set(r, [r4 EXCEPT !.pc = "adv_save",
                             !.log = Report(r4, ProgressKN("PDF created with pages",
                                                           rec.totalPages, rec.totalPages))])
    /\ UNCHANGED <<elStyle, parStyle, scrollTop>>

\* faulty variant: the save also taken while pages are still to be placed
AdvSaveInsideLoop(r) ==
    /\ run[r].pc \in {"adv_save", "adv_loop"}
    /\ \E ok \in BOOLEAN :
        LET r1 == [run[r] EXCEPT !.log = Append(@, Call("save"))]
        IN  IF ok
            THEN Set(r, [r1 EXCEPT !.pc = "done", !.saved = @ + 1])
            ELSE Set(r, Throw(r1, "save failed"))
    /\ UNCHANGED <<elStyle, parStyle, scrollTop>>

\* pdf.save(fileName): a throw goes to the catch, which rethrows it
AdvSave(r) ==
    /\ run[r].pc = "adv_save"
    /\ \E ok \in BOOLEAN :
        LET r1 == [run[r] EXCEPT !.log = Append(@, Call("save"))]
        IN  IF ok
            THEN Set(r, [r1 EXCEPT !.pc = "done", !.saved = @ + 1])
            ELSE Set(r, Throw(r1, "save failed"))
    /\ UNCHANGED <<elStyle, parStyle, scrollTop>>

AdvancedGeneratePDF(r) ==
    \/ AdvStart(r)
    \/ AdvRaf1(r)
    \/ AdvTimer1(r)
    \/ AdvRaf2(r)
    \/ AdvTimer2(r)
    \/ AdvCaptureReject(r)
    \/ AdvCaptureResolve(r)
    \/ AdvSingle(r)
    \/ AdvPage(r)
    \/ AdvSave(r)

(***************************************************************************)
(* simpleGeneratePDF                                                       *)
(***************************************************************************)
SimpleSnapshot(el) ==
    [NoSnapshot EXCEPT !.overflow = el.overflow, !.height = el.height,
                       !.maxHeight = el.maxHeight]

SimpleOverrideEl(el) ==
    [el EXCEPT !.overflow = "visible", !.height = "auto", !.maxHeight = "none"]

SimpleRestoreEl(el, orig) ==
    [el EXCEPT !.overflow = orig.overflow, !.height = orig.height,
               !.maxHeight = orig.maxHeight]

\* imgAspectRatio = canvas.width / canvas.height; imgHeight = imgWidth / imgAspectRatio
SimpleImgHeight(canvasH, imgW, canvasW) ==
    RDiv(RInt(imgW), RDiv(RInt(canvasW), RInt(canvasH)))

\* sourceY = (page * contentHeight * canvas.height) / imgHeight
SimpleSourceY(page, contentH, canvasH, imgH) ==
    RDiv(RInt(page * contentH * canvasH), imgH)

\* sourceHeight = Math.min((contentHeight * canvas.height) / imgHeight,
\*                         canvas.height - sourceY)
SimpleSourceHeight(sourceY, contentH, canvasH, imgH) ==
    RMin(RDiv(RInt(contentH * canvasH), imgH), RSub(RInt(canvasH), sourceY))

\* actualPageHeight = Math.min(contentHeight, (sourceHeight * imgWidth) / canvas.width)
SimpleActualPageHeight(sourceH, contentH, imgW, canvasW) ==
    RMin(RInt(contentH), RDiv(RMul(sourceH, RInt(imgW)), RInt(canvasW)))

\* the call and the validation of its inputs, then the style override and the
\* frame yield
SimpleStart(r) ==
    /\ run[r].pc = "idle"
    /\ \E hasElem \in BOOLEAN, text \in Texts :
        /\ hasElem \/ text = <<>>
        /\ LET r1 == [run[r] EXCEPT !.fn = "simple", !.hasElem = hasElem,
                          !.text = text, !.preEl = elStyle, !.prePar = parStyle,
                          !.margin = SimpleMargin]
           IN  IF ~hasElem
               THEN /\ Set(r, Reject(r1, "No element provided"))
                    /\ UNCHANGED elStyle
               ELSE IF NoTextContent(text)
               THEN /\ Set(r, Reject(r1, "Element has no content"))
                    /\ UNCHANGED elStyle
               ELSE /\ Set(r, [r1 EXCEPT !.pc = "simple_raf", !.validated = TRUE,
                                   !.orig = SimpleSnapshot(elStyle)])
                    /\ elStyle' = SimpleOverrideEl(elStyle)
    /\ UNCHANGED <<parStyle, scrollTop>>

\* await requestAnimationFrame
SimpleRaf(r) ==
    /\ run[r].pc = "simple_raf"
    /\ Set(r, [run[r] EXCEPT !.pc = "simple_timer", !.log = Append(@, Call("raf"))])
    /\ UNCHANGED <<elStyle, parStyle, scrollTop>>

\* await setTimeout 100, then the call of html2canvas
SimpleTimer(r) ==
    /\ run[r].pc = "simple_timer"
    /\ LET r1 == [run[r] EXCEPT !.log = Append(@, Wait("timeout", SimpleDelayMs))]
       IN  Set(r, [r1 EXCEPT !.pc = "simple_capture",
                       !.log = Append(@, Call("html2canvas"))])
    /\ UNCHANGED <<elStyle, parStyle, scrollTop>>

\* html2canvas rejects: the catch rethrows, nothing after the await runs
SimpleCaptureReject(r) ==
    /\ run[r].pc = "simple_capture"
    /\ Set(r, Throw(run[r], "html2canvas failed"))
    /\ UNCHANGED <<elStyle, parStyle, scrollTop>>

\* html2canvas resolves: styles are restored, the canvas is validated, the
\* document is created and the page geometry computed
SimpleCaptureResolve(r) ==
    /\ run[r].pc = "simple_capture"
    /\ \E w \in 0..MaxCanvasW, h \in 0..MaxCanvasH,
          pw \in PageWidths(SimpleMargin), ph \in PageHeights(SimpleMargin) :
        LET r1 == [run[r] EXCEPT !.captured = TRUE, !.canvasW = w, !.canvasH = h,
                       !.log = Append(@, Call("restore"))]
        IN  /\ elStyle' = SimpleRestoreEl(elStyle, run[r].orig)
            /\ IF w = 0 \/ h = 0
               THEN /\ pw = 2 * SimpleMargin + 1 /\ ph = 2 * SimpleMargin + 1
                    /\ Set(r, Throw(r1, "Canvas is empty"))
               ELSE LET contentW == ContentWidth(pw, SimpleMargin)
                        contentH == ContentHeight(ph, SimpleMargin)
                        imgH == SimpleImgHeight(h, contentW, w)
                        r2 == [r1 EXCEPT !.pdf = TRUE, !.pages = NewPdf,
                                   !.pageW = pw, !.pageH = ph, !.imgH = imgH,
                                   !.log = Append(@, Call("newPdf"))]
                    IN  IF RLe(imgH, RInt(contentH))
                        THEN Set(r, [r2 EXCEPT !.pc = "simple_single"])
                        ELSE Set(r, [r2 EXCEPT !.pc = "simple_loop", !.pageNum = 0,
                                         !.totalPages = TotalPages(imgH, contentH)])
    /\ UNCHANGED <<parStyle, scrollTop>>

\* single page
SimpleSingle(r) ==
    /\ run[r].pc = "simple_single"
    /\ \E ok \in BOOLEAN :
        LET rec == run[r]
            imgW == ContentWidth(rec.pageW, SimpleMargin)
            img == Image(SimpleMargin, SimpleMargin, imgW, rec.imgH,
                         0, RInt(0), RInt(rec.canvasH), FALSE)
            r1 == [rec EXCEPT !.log = Append(@, Call("addImage"))]
        IN  IF ~ok
            THEN Set(r, Throw(r1, "addImage failed"))
            ELSE Set(r, [r1 EXCEPT !.pc = "simple_save", !.pages = AddImage(@, img)])
    /\ UNCHANGED <<elStyle, parStyle, scrollTop>>

\* one iteration of the multi-page loop
SimplePage(r) ==
    /\ run[r].pc = "simple_loop"
    /\ run[r].pageNum < run[r].totalPages
    /\ \E ok \in BOOLEAN :
        LET rec == run[r]
            p == rec.pageNum
            imgW == ContentWidth(rec.pageW, SimpleMargin)
            contentH == ContentHeight(rec.pageH, SimpleMargin)
            sourceY == SimpleSourceY(p, contentH, rec.canvasH, rec.imgH)
            sourceH == SimpleSourceHeight(sourceY, contentH, rec.canvasH, rec.imgH)
            pageCanvas == Slice(rec.canvasW, RTrunc(sourceH), sourceY, RAdd(sourceY, sourceH),
                                sourceY, rec.canvasW, sourceH)
            img == Image(SimpleMargin, SimpleMargin, imgW,
                         SimpleActualPageHeight(sourceH, contentH, imgW, rec.canvasW),
                         p, sourceY, RAdd(sourceY, sourceH), TRUE)
            r1 == IF p > 0
                  THEN [rec EXCEPT !.pages = AddPage(@), !.log = Append(@, Call("addPage"))]
                  ELSE rec
            r2 == [r1 EXCEPT !.slices = Append(@, pageCanvas),
                       !.log = Append(@, Call("addImage"))]
            r3 == [r2 EXCEPT !.pages = AddImage(@, img), !.pageNum = p + 1]
        IN  IF ~ok
            THEN Set(r, Throw(r2, "addImage failed"))
            ELSE IF p + 1 < rec.totalPages
            THEN Set(r, r3)
            ELSE Set(r, [r3 EXCEPT !.pc = "simple_save"])
    /\ UNCHANGED <<elStyle, parStyle, scrollTop>>

\* pdf.save(fileName): a throw goes to the catch, which rethrows it
SimpleSave(r) ==
    /\ run[r].pc = "simple_save"
    /\ \E ok \in BOOLEAN :
        LET r1 == [run[r] EXCEPT !.log = Append(@, Call("save"))]
        IN  IF ok
            THEN Set(r, [r1 EXCEPT !.pc = "done", !.saved = @ + 1])
            ELSE Set(r, Throw(r1, "save failed"))
    /\ UNCHANGED <<elStyle, parStyle, scrollTop>>

SimpleGeneratePDF(r) ==
    \/ SimpleStart(r)
    \/ SimpleRaf(r)
    \/ SimpleTimer(r)
    \/ SimpleCaptureReject(r)
    \/ SimpleCaptureResolve(r)
    \/ SimpleSingle(r)
    \/ SimplePage(r)
    \/ SimpleSave(r)


(***************************************************************************)
(* debugElement                                                            *)
(***************************************************************************)
\* hasContent: (element.textContent?.length || 0) > 0; isVisible: offsetParent !== null
DebugElement(text, offsetParent) ==
    [hasContent |-> Len(text) > 0, isVisible |-> offsetParent]

(***************************************************************************)
(* generatePDF and prepareElementForCapture                                *)
(***************************************************************************)
Images == {1, 2}

\* what the libraries may throw into generatePDF's try block
LibraryThrows ==
    { Error("library: canvas failure"), Error("library: image failure"),
      Error("library: image of canvas failure"),
      Error("library: failure"), [isError |-> FALSE, msg |-> "thrown value", wrap |-> ""] }

\* error.message.includes(word), for the messages that occur
Includes(msg, word) ==
    \/ /\ word = "canvas"
       /\ msg \in { "Failed to capture content - canvas is empty. The element might not be visible or rendered properly.",
                    "library: canvas failure", "library: image of canvas failure" }
    \/ /\ word = "image"
       /\ msg \in { "Failed to generate image from content. The content might be empty or not properly rendered.",
                    "library: image failure", "library: image of canvas failure" }

\* faulty variant: the test for "image" made before the test for "canvas"
GenCatchImageFirst(thrown) ==
    IF thrown.isError
    THEN IF Includes(thrown.msg, "image")
         THEN [thrown EXCEPT !.wrap = "Image processing failed"]
         ELSE IF Includes(thrown.msg, "canvas")
         THEN [thrown EXCEPT !.wrap = "Canvas generation failed"]
         ELSE thrown
    ELSE Error("An unexpected error occurred during PDF generation. Please try again.")

\* the catch block of generatePDF: the Error the caller receives
GenCatch(thrown) ==
    IF thrown.isError
    THEN IF Includes(thrown.msg, "canvas")
         THEN [thrown EXCEPT !.wrap = "Canvas generation failed"]
         ELSE IF Includes(thrown.msg, "image")
         THEN [thrown EXCEPT !.wrap = "Image processing failed"]
         ELSE thrown
    ELSE Error("An unexpected error occurred during PDF generation. Please try again.")

GenThrow(rec, thrown) ==
    [rec EXCEPT !.pc = "failed", !.thrown = thrown, !.err = GenCatch(thrown),
                !.log = Append(@, Call("catch"))]

\* faulty variant: only the placeholder is recognised
GenDegeneratePlaceholderOnly(imgData) == imgData.placeholder

\* imgData === "data:," || imgData.length < 100
GenDegenerate(imgData) == imgData.placeholder \/ imgData.length < MinImgDataLen

\* canvas.toDataURL: the placeholder, a short string or a full encoding
ImgDatas ==
    { [placeholder |-> TRUE, length |-> 6],
      [placeholder |-> FALSE, length |-> MinImgDataLen - 1],
      [placeholder |-> FALSE, length |-> MinImgDataLen] }

\* const imgData = canvas.toDataURL("image/jpeg", 0.95): the call and its answer
ToDataURL(imgData) ==
    Ev("toDataURL", IF imgData.placeholder THEN "data:," ELSE "", imgData.length, 0)

\* faulty variant: the loop also runs when nothing is left
GenMorePagesInclusive(heightLeft) == RLe(RInt(0), heightLeft)

\* while (heightLeft > 0)
GenMorePages(heightLeft) == RLt(RInt(0), heightLeft)

\* faulty variant: the margin is not added back
GenYPositionNoMargin(imgH, heightLeft, margin) == RNeg(RSub(imgH, heightLeft))

\* yPosition = -(imgHeight - heightLeft) + margin
GenYPosition(imgH, heightLeft, margin) ==
    RAdd(RNeg(RSub(imgH, heightLeft)), RInt(margin))

\* the call: first progress report, scroll reset and first frame yield of
\* prepareElementForCapture
GenStart(r) ==
    /\ run[r].pc = "idle"
    /\ \E cb \in BOOLEAN, hasElem \in BOOLEAN, text \in ShortTexts :
        /\ hasElem \/ text = <<>>
        /\ LET r0 == [run[r] EXCEPT !.fn = "generate", !.cb = cb,
                          !.hasElem = hasElem, !.text = text,
                          !.preEl = elStyle, !.prePar = parStyle,
                          !.margin = GenMargin]
               r1 == [r0 EXCEPT !.log = Report(r0, Progress("Preparing content for PDF..."))]
           IN  IF ~hasElem
               THEN /\ Set(r, GenThrow(r1, Error("TypeError: element is null")))
                    /\ UNCHANGED scrollTop
               ELSE /\ Set(r, [r1 EXCEPT !.pc = "gen_raf1",
                                   !.log = Append(@, Call("scrollTop"))])
                    /\ scrollTop' = 0
    /\ UNCHANGED <<elStyle, parStyle>>

\* await requestAnimationFrame (first)
GenRaf1(r) ==
    /\ run[r].pc = "gen_raf1"
    /\ Set(r, [run[r] EXCEPT !.pc = "gen_raf2", !.log = Append(@, Call("raf"))])
    /\ UNCHANGED <<elStyle, parStyle, scrollTop>>

\* faulty variant: the images are found but their loads are not awaited
GenAwaitImagesNoWait(rec, imgs, pend) ==
    [rec EXCEPT !.pc = "gen_settle", !.hasImages = imgs # {}]

\* querySelectorAll("img") and the Promise.all over the images: pend are the
\* images that are not complete
GenAwaitImages(rec, imgs, pend) ==
    IF imgs = {}
    THEN [rec EXCEPT !.pc = "gen_settle"]
    ELSE IF pend = {}
    THEN [rec EXCEPT !.pc = "gen_settle", !.hasImages = TRUE,
                     !.log = Append(@, Call("images"))]
    ELSE [rec EXCEPT !.pc = "gen_images", !.hasImages = TRUE,
                     !.pending = pend, !.waited = pend]

\* await requestAnimationFrame (second); then document.fonts.ready is awaited
\* when the API exists, else the image wait begins
GenRaf2(r) ==
    /\ run[r].pc = "gen_raf2"
    /\ \E fontsApi \in BOOLEAN, imgs \in SUBSET Images, pend \in SUBSET Images :
        /\ pend \subseteq imgs
        /\ LET r1 == [run[r] EXCEPT !.fontsApi = fontsApi,
                          !.log = Append(@, Call("raf"))]
           IN  IF fontsApi
               THEN /\ imgs = {} /\ pend = {}
                    /\ Set(r, [r1 EXCEPT !.pc = "gen_fonts"])
               ELSE Set(r, GenAwaitImages(r1, imgs, pend))
    /\ UNCHANGED <<elStyle, parStyle, scrollTop>>

\* await document.fonts.ready; then the image wait begins
GenFonts(r) ==
    /\ run[r].pc = "gen_fonts"
    /\ \E imgs \in SUBSET Images, pend \in SUBSET Images :
        /\ pend \subseteq imgs
        /\ Set(r, GenAwaitImages([run[r] EXCEPT !.log = Append(@, Call("fonts.ready"))],
                                 imgs, pend))
    /\ UNCHANGED <<elStyle, parStyle, scrollTop>>

\* faulty variant: the error of an image rejects the wait
GenImageEventErrorRejects(r) ==
    /\ run[r].pc = "gen_images"
    /\ \E i \in run[r].pending, kind \in {"load", "error"} :
        LET r1 == [run[r] EXCEPT !.pending = @ \ {i},
                       !.log = Append(@, Ev("image", kind, i, 0))]
        IN  IF kind = "error"
            THEN Set(r, GenThrow(r1, Error("library: image failure")))
            ELSE IF r1.pending = {}
            THEN Set(r, [r1 EXCEPT !.pc = "gen_settle", !.log = Append(@, Call("images"))])
            ELSE Set(r, r1)
    /\ UNCHANGED <<elStyle, parStyle, scrollTop>>

\* img.onload / img.onerror of an image waited for: both resolve its promise
GenImageEvent(r) ==
    /\ run[r].pc = "gen_images"
    /\ \E i \in run[r].pending, kind \in {"load", "error"} :
        LET r1 == [run[r] EXCEPT !.pending = @ \ {i},
                       !.log = Append(@, Ev("image", kind, i, 0))]
        IN  IF r1.pending = {}
            THEN Set(r, [r1 EXCEPT !.pc = "gen_settle", !.log = Append(@, Call("images"))])
            ELSE Set(r, r1)
    /\ UNCHANGED <<elStyle, parStyle, scrollTop>>

\* await setTimeout 500; prepareElementForCapture returns; debugElement and the
\* validation of its answer; progress report and the call of html2canvas
GenSettle(r) ==
    /\ run[r].pc = "gen_settle"
    /\ \E offsetParent \in BOOLEAN :
        LET r1 == [run[r] EXCEPT !.log = Append(@, Wait("timeout", GenSettleMs))]
            debugInfo == DebugElement(r1.text, offsetParent)
            r2 == [r1 EXCEPT !.validated = TRUE,
                       !.log = Report(r1, Progress("Capturing content..."))]
        IN  IF ~debugInfo.hasContent
            THEN Set(r, GenThrow(r1, Error("The element appears to have no content to capture.")))
            ELSE IF ~debugInfo.isVisible
            THEN Set(r, GenThrow(r1, Error("The element is not visible and cannot be captured.")))
            ELSE Set(r, [r2 EXCEPT !.pc = "gen_capture",
                             !.log = Append(@, Call("html2canvas"))])
    /\ UNCHANGED <<elStyle, parStyle, scrollTop>>

\* html2canvas rejects
GenCaptureReject(r) ==
    /\ run[r].pc = "gen_capture"
    /\ \E thrown \in LibraryThrows : Set(r, GenThrow(run[r], thrown))
    /\ UNCHANGED <<elStyle, parStyle, scrollTop>>


\* html2canvas resolves: the canvas and its encoding are validated, the document
\* is created and the first page receives the whole image
GenCaptureResolve(r) ==
    /\ run[r].pc = "gen_capture"
    /\ \E w \in 0..MaxCanvasW, h \in 0..MaxCanvasH, imgData \in ImgDatas,
          pw \in PageWidths(GenMargin), ph \in PageHeights(GenMargin), ok \in BOOLEAN :
        LET r1 == [run[r] EXCEPT !.captured = TRUE, !.canvasW = w, !.canvasH = h]
            full == [placeholder |-> FALSE, length |-> MinImgDataLen]
            small == 2 * GenMargin + 1
        IN  IF w = 0 \/ h = 0
            THEN /\ imgData = full /\ pw = small /\ ph = small /\ ok
                 /\ Set(r, GenThrow(r1, Error("Failed to capture content - canvas is empty. The element might not be visible or rendered properly.")))
            ELSE IF GenDegenerate(imgData)
            THEN /\ pw = small /\ ph = small /\ ok
                 /\ Set(r, GenThrow([r1 EXCEPT !.log = Append(@, ToDataURL(imgData))],
                                    Error("Failed to generate image from content. The content might be empty or not properly rendered.")))
            ELSE LET r2 == [r1 EXCEPT !.log = Append(@, ToDataURL(imgData))]
                     r3 == [r2 EXCEPT !.log = Report(r2, Progress("Creating PDF..."))]
                     availableW == ContentWidth(pw, GenMargin)
                     availableH == ContentHeight(ph, GenMargin)
                     imgH == ImgHeight(h, availableW, w)
                     img == Image(GenMargin, RInt(GenMargin), availableW, imgH,
                                  0, RInt(0), RInt(h), FALSE)
                     r4 == [r3 EXCEPT !.pdf = TRUE, !.pages = NewPdf,
                                !.pageW = pw, !.pageH = ph, !.imgH = imgH,
                                !.pageNumber = 1,
                                !.log = Append(@, Call("newPdf")) \o <<Call("addImage")>>]
                 IN  IF ~ok
                     THEN \E thrown \in LibraryThrows : Set(r, GenThrow(r4, thrown))
                     ELSE Set(r, [r4 EXCEPT !.pc = "gen_loop",
                                      !.pages = AddImage(@, img),
                                      !.heightLeft = RSub(imgH, RInt(availableH))])
    /\ UNCHANGED <<elStyle, parStyle, scrollTop>>

\* one iteration of while (heightLeft > 0)
GenPage(r) ==
    /\ run[r].pc = "gen_loop"
    /\ GenMorePages(run[r].heightLeft)
    /\ \E ok \in BOOLEAN :
        LET rec == run[r]
            availableW == ContentWidth(rec.pageW, GenMargin)
            availableH == ContentHeight(rec.pageH, GenMargin)
            r1 == [rec EXCEPT !.pageNumber = @ + 1]
            r2 == [r1 EXCEPT !.log = Report(r1, ProgressKN("Creating page", r1.pageNumber, 0))]
            yPosition == GenYPosition(rec.imgH, rec.heightLeft, GenMargin)
            img == Image(GenMargin, yPosition, availableW, rec.imgH,
                         r1.pageNumber - 1, RInt(0), RInt(rec.canvasH), FALSE)
            r3 == [r2 EXCEPT !.pages = AddPage(@),
                       !.log = Append(@, Call("addPage")) \o <<Call("addImage")>>]
        IN  IF ~ok
            THEN \E thrown \in LibraryThrows : Set(r, GenThrow(r3, thrown))
            ELSE Set(r, [r3 EXCEPT !.pages = AddImage(@, img),
                             !.heightLeft = RSub(@, RInt(availableH))])
    /\ UNCHANGED <<elStyle, parStyle, scrollTop>>

\* the loop's exit: progress report and pdf.save(fileName); a throw of save is
\* caught by the inner catch, which starts the fallback
GenSave(r) ==
    /\ run[r].pc = "gen_loop"
    /\ ~GenMorePages(run[r].heightLeft)
    /\ \E ok \in BOOLEAN :
        LET r1 == [run[r] EXCEPT !.log = Report(run[r], Progress("Saving PDF..."))]
            r2 == [r1 EXCEPT !.log = Append(@, Call("save"))]
        IN  IF ok
            THEN LET r3 == [r2 EXCEPT !.saved = @ + 1]
                 IN  Set(r, [r3 EXCEPT !.pc = "done",
                                 !.log = Report(r3, Progress("PDF generated successfully!"))])
            ELSE Set(r, [r2 EXCEPT !.pc = "gen_fb_blob",
                             !.log = Append(@, Call("saveError"))])
    /\ UNCHANGED <<elStyle, parStyle, scrollTop>>

\* fallback: const blob = pdf.output("blob")
GenFallbackBlob(r) ==
    /\ run[r].pc = "gen_fb_blob"
    /\ \E ok \in BOOLEAN :
        LET r1 == [run[r] EXCEPT !.log = Append(@, Call("output"))]
        IN  IF ok
            THEN Set(r, [r1 EXCEPT !.pc = "gen_fb_url", !.blob = TRUE])
            ELSE \E thrown \in LibraryThrows : Set(r, GenThrow(r1, thrown))
    /\ UNCHANGED <<elStyle, parStyle, scrollTop>>

\* fallback: const url = URL.createObjectURL(blob)
GenFallbackUrl(r) ==
    /\ run[r].pc = "gen_fb_url"
    /\ \E ok \in BOOLEAN :
        LET r1 == [run[r] EXCEPT !.log = Append(@, Call("createObjectURL"))]
        IN  IF ok
            THEN Set(r, [r1 EXCEPT !.pc = "gen_fb_attach", !.url = "live"])
            ELSE \E thrown \in LibraryThrows : Set(r, GenThrow(r1, thrown))
    /\ UNCHANGED <<elStyle, parStyle, scrollTop>>

\* fallback: the link is created, pointed at the url and appended to the body
GenFallbackAttach(r) ==
    /\ run[r].pc = "gen_fb_attach"
    /\ Set(r, [run[r] EXCEPT !.pc = "gen_fb_click", !.link = "attached",
                   !.log = Append(@, Call("appendChild"))])
    /\ UNCHANGED <<elStyle, parStyle, scrollTop>>

\* fallback: a.click()
GenFallbackClick(r) ==
    /\ run[r].pc = "gen_fb_click"
    /\ Set(r, [run[r] EXCEPT !.pc = "gen_fb_detach", !.downloads = @ + 1,
                   !.log = Append(@, Call("click"))])
    /\ UNCHANGED <<elStyle, parStyle, scrollTop>>

\* faulty variant: the link is never removed from the body
GenFallbackDetachSkipped(r) ==
    /\ run[r].pc = "gen_fb_detach"
    /\ Set(r, [run[r] EXCEPT !.pc = "gen_fb_revoke"])
    /\ UNCHANGED <<elStyle, parStyle, scrollTop>>

\* fallback: document.body.removeChild(a)
GenFallbackDetach(r) ==
    /\ run[r].pc = "gen_fb_detach"
    /\ Set(r, [run[r] EXCEPT !.pc = "gen_fb_revoke", !.link = "detached",
                   !.log = Append(@, Call("removeChild"))])
    /\ UNCHANGED <<elStyle, parStyle, scrollTop>>

\* fallback: URL.revokeObjectURL(url); then the final progress report
GenFallbackRevoke(r) ==
    /\ run[r].pc = "gen_fb_revoke"
    /\ LET r1 == [run[r] EXCEPT !.url = "revoked",
                      !.log = Append(@, Call("revokeObjectURL"))]
       IN  Set(r, [r1 EXCEPT !.pc = "done",
                       !.log = Report(r1, Progress("PDF generated successfully!"))])
    /\ UNCHANGED <<elStyle, parStyle, scrollTop>>

GeneratePDF(r) ==
    \/ GenStart(r)
    \/ GenRaf1(r)
    \/ GenRaf2(r)
    \/ GenFonts(r)
    \/ GenImageEvent(r)
    \/ GenSettle(r)
    \/ GenCaptureReject(r)
    \/ GenCaptureResolve(r)
    \/ GenPage(r)
    \/ GenSave(r)
    \/ GenFallbackBlob(r)
    \/ GenFallbackUrl(r)
    \/ GenFallbackAttach(r)
    \/ GenFallbackClick(r)
    \/ GenFallbackDetach(r)
    \/ GenFallbackRevoke(r)


(***************************************************************************)
(* File names and the upload handler of Home                               *)
(***************************************************************************)
\* a file name is the sequence of its characters
DotMd == <<".", "m", "d">>
DotPdf == <<".", "p", "d", "f">>
DotTxt == <<".", "t", "x", "t">>
DefaultPdfName == <<"markdown-document">> \o DotPdf

NameParts == {<<"a">>, DotMd, DotTxt}

RECURSIVE NamesOf(_)
NamesOf(n) ==
    IF n = 0 THEN {<<>>}
    ELSE LET S == NamesOf(n - 1)
         IN  S \cup {s \o p : s \in S, p \in NameParts}

\* the names a chosen file can have
FileNames == NamesOf(MaxNameParts) \ {<<>>}

\* event.target.files?.[0]: no file, or a file with its name and MIME type
NoFile == [present |-> FALSE, name |-> <<>>, type |-> ""]
Files ==
    {NoFile} \cup
    { [present |-> TRUE, name |-> n, type |-> t] :
          n \in FileNames, t \in {"text/markdown", ""} }

\* name.endsWith(suffix)
EndsWith(name, suffix) ==
    /\ Len(suffix) <= Len(name)
    /\ SubSeq(name, Len(name) - Len(suffix) + 1, Len(name)) = suffix

\* name.indexOf(pattern) + 1: the place of the first occurrence, 0 for none
IndexOf(name, pattern) ==
    LET at == { i \in 1..(Len(name) - Len(pattern) + 1) :
                    SubSeq(name, i, i + Len(pattern) - 1) = pattern }
    IN  IF at = {} THEN 0 ELSE CHOOSE i \in at : \A k \in at : i <= k

\* name.replace(pattern, replacement) with a string pattern: the first
\* occurrence only
Replace(name, pattern, replacement) ==
    LET i == IndexOf(name, pattern)
    IN  IF i = 0 THEN name
        ELSE SubSeq(name, 1, i - 1) \o replacement
                 \o SubSeq(name, i + Len(pattern), Len(name))

\* fileName ? fileName.replace(".md", ".pdf") : "markdown-document.pdf"
PdfFileName(fileName) ==
    IF fileName # <<>> THEN Replace(fileName, DotMd, DotPdf) ELSE DefaultPdfName

\* file && (file.type === "text/markdown" || file.name.endsWith(".md"))
Accepted(file) ==
    file.present /\ (file.type = "text/markdown" \/ EndsWith(file.name, DotMd))

\* handleFileUpload: an accepted file gives its name to fileName and starts
\* a read of its content (the content of the n-th chosen file is n); else an
\* alert
HandleFileUploadOn(u, file) ==
    IF Accepted(file)
    THEN [u EXCEPT !.uploads = @ + 1, !.fileName = file.name,
                   !.loaded = u.uploads + 1,
                   !.reads = @ \cup {u.uploads + 1}]
    ELSE [u EXCEPT !.uploads = @ + 1,
                   !.alerts = Append(@, <<"Please select a valid Markdown file (.md)", "">>)]

HandleFileUpload ==
    /\ ui.uploads < MaxUploads
    /\ \E file \in Files : ui' = HandleFileUploadOn(ui, file)
    /\ UNCHANGED <<elStyle, parStyle, scrollTop, run>>

\* reader.onload of one of the pending reads, in any order
ReaderLoad ==
    /\ \E content \in ui.reads :
          ui' = [ui EXCEPT !.reads = @ \ {content}, !.markdownContent = content]
    /\ UNCHANGED <<elStyle, parStyle, scrollTop, run>>


(***************************************************************************)
(* Home: the Download PDF button and handleGeneratePDF                     *)
(***************************************************************************)
\* faulty variant: the render after the click is left for later
FlushSyncDeferred(u) == u

\* React commits the state updates of a click before the next event is
\* handled: the button's disabled attribute and the handler's closure take
\* the new isGenerating
FlushSync(u) == [u EXCEPT !.rendered = u.isGenerating]

\* a capture of at most 1 x MaxRaceCanvasH on the smallest page
SmallCapture(rec) ==
    /\ rec.canvasW <= 1 /\ rec.canvasH <= MaxRaceCanvasH
    /\ rec.pageW \in {0, 2 * AdvMargin + 1}
    /\ rec.pageH \in {0, 2 * AdvMargin + 1}

\* if (!previewRef.current || isGenerating) return
HandlerReturnsEarly(previewRef, isGenerating) == ~previewRef \/ isGenerating

\* faulty variant: the generating state is left as it is
HandlerFinallySkipped(u) == u

\* finally { setIsGenerating(false) }
HandlerFinally(u) == [u EXCEPT !.isGenerating = FALSE]

\* catch: "Failed to generate PDF. " + error.message (or "Please try again."
\* for a thrown value that is no Error), alert, setProgressMessage("")
HandlerCatch(u, thrown) ==
    [u EXCEPT !.alerts = Append(@, <<"Failed to generate PDF. ",
                                     IF thrown.isError THEN thrown.msg
                                     ELSE "Please try again.">>),
              !.progressMessage = Progress("")]

\* the last message the run gave to setProgressMessage in this step, if any
LastReported(before, after, old) ==
    LET new == { i \in (Len(before) + 1)..Len(after) : after[i].op = "progress" }
    IN  IF new = {} THEN old
        ELSE after[CHOOSE i \in new : \A k \in new : k <= i]

InFlight(r) == run[r].fn = "advanced" /\ run[r].pc # "idle"

\* a click on Download PDF: nothing when the button is disabled; else
\* handleGeneratePDF up to its await, the synchronous start of
\* advancedGeneratePDF included
HandleGeneratePDF(r) ==
    /\ ui.triggers < MaxTriggers
    /\ run[r].pc = "idle"
    /\ \A q \in RunIds : q < r => run[q].pc # "idle"
    /\ LET u0 == [ui EXCEPT !.triggers = @ + 1]
       IN  IF ui.rendered
           THEN /\ ui' = [u0 EXCEPT !.dropped = @ + 1]
                /\ UNCHANGED <<elStyle, parStyle, scrollTop, run>>
           ELSE IF HandlerReturnsEarly(ui.previewRef, ui.rendered)
           THEN /\ ui' = u0
                /\ UNCHANGED <<elStyle, parStyle, scrollTop, run>>
           ELSE LET u1 == [u0 EXCEPT !.isGenerating = TRUE,
                                     !.progressMessage = Progress("Initializing..."),
                                     !.pdfFileName = PdfFileName(ui.fileName)]
                IN  IF NoTextContent(ui.text)
                    THEN /\ ui' = FlushSync(HandlerFinally(HandlerCatch(u1,
                                      Error("No content to convert. Please add some markdown content first."))))
                         /\ UNCHANGED <<elStyle, parStyle, scrollTop, run>>
                    ELSE /\ AdvStart(r)
                         /\ run'[r].cb /\ run'[r].hasElem /\ run'[r].text = ui.text
                         /\ ui' = FlushSync([u1 EXCEPT !.progressMessage =
                                      LastReported(<<>>, run'[r].log, @)])

\* a step of the run the handler awaits (its capture a small one); its
\* progress reports go to setProgressMessage
HandlerAwait(r) ==
    /\ InFlight(r)
    /\ \/ AdvRaf1(r) \/ AdvTimer1(r) \/ AdvRaf2(r) \/ AdvTimer2(r)
       \/ AdvCaptureReject(r) \/ AdvCaptureResolve(r)
       \/ AdvSingle(r) \/ AdvPage(r) \/ AdvSave(r)
    /\ SmallCapture(run'[r])
    /\ ui' = [ui EXCEPT !.progressMessage = LastReported(run[r].log, run'[r].log, @),
                        !.savedAs = IF run'[r].saved > run[r].saved
                                    THEN ui.pdfFileName ELSE @]

\* the await settles: the success message and its 2000ms timer, or the catch
\* block; then the finally block; the handler's call is over
HandlerSettle(r) ==
    /\ run[r].fn = "advanced" /\ run[r].pc \in {"done", "failed"}
    /\ IF run[r].pc = "done"
       THEN ui' = HandlerFinally([ui EXCEPT
                      !.progressMessage = Progress("PDF downloaded successfully!"),
                      !.timers = @ + 1])
       ELSE ui' = HandlerFinally(HandlerCatch(ui, run[r].err))
    /\ Set(r, IdleRun)
    /\ UNCHANGED <<elStyle, parStyle, scrollTop>>

\* the render React schedules after the updates of the settled handler
Render ==
    /\ ui.rendered # ui.isGenerating
    /\ ui' = [ui EXCEPT !.rendered = ui.isGenerating]
    /\ UNCHANGED <<elStyle, parStyle, scrollTop, run>>

\* setTimeout(() => setProgressMessage(""), 2000) fires
ClearProgress ==
    /\ ui.timers > 0
    /\ ui' = [ui EXCEPT !.timers = @ - 1, !.progressMessage = Progress("")]
    /\ UNCHANGED <<elStyle, parStyle, scrollTop, run>>

Home ==
    \/ \E r \in RunIds : HandleGeneratePDF(r)
    \/ \E r \in RunIds : HandlerAwait(r)
    \/ \E r \in RunIds : HandlerSettle(r)
    \/ Render
    \/ ClearProgress


(***************************************************************************)
(* Specifications: one run of a generator of layout.tsx, and one run of    *)
(* generatePDF (which never reads or writes the inline styles).            *)
(***************************************************************************)
Next ==
    \/ AdvancedGeneratePDF(1) /\ UNCHANGED ui
    \/ SimpleGeneratePDF(1) /\ UNCHANGED ui

Spec == Init /\ [][Next]_vars

InitGenerate ==
    /\ Init
    /\ elStyle = [overflow |-> "", height |-> "", maxHeight |-> ""]
    /\ parStyle = [overflow |-> "", height |-> "", maxHeight |-> ""]

NextGenerate == GeneratePDF(1) /\ UNCHANGED ui

SpecGenerate == InitGenerate /\ [][NextGenerate]_vars

\* one run of either generator that prepares the element before the capture
NextPrepare ==
    \/ AdvancedGeneratePDF(1) /\ UNCHANGED ui
    \/ GeneratePDF(1) /\ UNCHANGED ui

SpecPrepare == InitGenerate /\ [][NextPrepare]_vars

\* the page with its preview mounted (or not yet), some text in it, no inline
\* style on the preview or its container
InitUI ==
    /\ elStyle = [overflow |-> "", height |-> "", maxHeight |-> ""]
    /\ parStyle = [overflow |-> "", height |-> "", maxHeight |-> ""]
    /\ scrollTop = 0
    /\ run = [r \in RunIds |-> IdleRun]
    /\ \E text \in ShortTexts, previewRef \in BOOLEAN :
          ui = [IdleUI EXCEPT !.text = text, !.previewRef = previewRef]

NextUI == Home

\* two calls of advancedGeneratePDF on the same element, each step of one
\* free to fall between two steps of the other; no callback, a text of one
\* letter or none, a small capture
RaceInput(rec) ==
    /\ ~rec.cb
    /\ rec.text \in {<<>>, <<"a">>}
    /\ SmallCapture(rec)

NextRace == \E r \in RunIds : AdvancedGeneratePDF(r) /\ RaceInput(run'[r]) /\ UNCHANGED ui

SpecRace == Init /\ [][NextRace]_vars

SpecUI == InitUI /\ [][NextUI]_vars

\* the page with some content in its preview: files are chosen and their
\* reads complete in any order; then Download PDF is clicked once
InitUpload ==
    /\ InitUI
    /\ ui.previewRef /\ ui.text = <<"a">>

NextUpload ==
    \/ HandleFileUpload /\ ui.triggers = 0
    \/ ReaderLoad /\ ui.triggers = 0
    \/ Home /\ ui'.triggers <= 1

SpecUpload == InitUpload /\ [][NextUpload]_vars


(***************************************************************************)
(* Properties.                                                             *)
(***************************************************************************)
CeilDiv(a, b) == (a + b - 1) \div b

Ops(log) == [i \in 1..Len(log) |-> log[i].op]
Called(rec, op) == \E i \in 1..Len(rec.log) : rec.log[i].op = op
IsPrefix(s, t) == Len(s) <= Len(t) /\ \A i \in 1..Len(s) : s[i] = t[i]
WhitespaceOnly(text) == \A i \in 1..Len(text) : text[i] = " "

Adv == run[1]
AdvContentW == Adv.pageW - 2 * AdvMargin
AdvContentH == Adv.pageH - 2 * AdvMargin
AdvLoopFinished ==
    Adv.fn = "advanced" /\ Adv.totalPages > 0 /\ Adv.pageNum = Adv.totalPages

\* C1: a successful run of advancedGeneratePDF on a canvasW x canvasH raster
\* (both > 0) yields a document of ceil(imgH / contentH) pages, where
\* imgH = canvasH * contentW / canvasW, and of at least one page.
C1_PageCount ==
    (Adv.fn = "advanced" /\ Adv.pc = "done") =>
        /\ Adv.canvasW > 0 /\ Adv.canvasH > 0
        /\ Len(Adv.pages) = CeilDiv(Adv.canvasH * AdvContentW, Adv.canvasW * AdvContentH)
        /\ Len(Adv.pages) >= 1

C1_Witness ==
    /\ Adv.fn = "advanced" /\ Adv.pc = "done"
    /\ Len(Adv.pages) = 3
    /\ Adv.canvasH * AdvContentW = 3 * Adv.canvasW * AdvContentH

\* C2: in the multi-page branch the row ranges [yStart, yEnd) of the slices
\* partition the raster: the first starts at row 0, each ends where the next
\* starts, the last ends at canvasH, and every row of [0, canvasH) lies in
\* exactly one slice.
C2_SlicesPartition ==
    (Adv.fn = "advanced" /\ Adv.slices # <<>>) =>
        /\ Adv.slices[1].yStart = RInt(0)
        /\ \A i \in 1..(Len(Adv.slices) - 1) :
              Adv.slices[i].yEnd = Adv.slices[i + 1].yStart
        /\ AdvLoopFinished =>
              /\ Adv.slices[Len(Adv.slices)].yEnd = RInt(Adv.canvasH)
              /\ \A row \in 0..(Adv.canvasH - 1) :
                    Cardinality({ i \in 1..Len(Adv.slices) :
                                    /\ RLe(Adv.slices[i].yStart, RInt(row))
                                    /\ RLt(RInt(row), Adv.slices[i].yEnd) }) = 1

C2_Witness ==
    /\ AdvLoopFinished
    /\ Len(Adv.slices) = 2
    /\ Adv.slices[2].yStart[2] # 1
    /\ RLt(Adv.slices[2].srcH, Adv.slices[1].srcH)

C4_SinglePage ==
    (Adv.fn = "advanced" /\ Adv.pdf
        /\ Adv.canvasH * AdvContentW <= AdvContentH * Adv.canvasW) =>
        /\ Len(Adv.pages) = 1
        /\ Adv.slices = <<>>
        /\ ~Called(Adv, "addPage")
        /\ Len(Adv.pages[1]) <= 1
        /\ Adv.pc \in {"adv_save", "done"} =>
              /\ Len(Adv.pages[1]) = 1
              /\ Adv.pages[1][1].x = AdvMargin /\ Adv.pages[1][1].y = AdvMargin
              /\ ~Adv.pages[1][1].sliced
              /\ Adv.pages[1][1].yStart = RInt(0)
              /\ Adv.pages[1][1].yEnd = RInt(Adv.canvasH)

C4_Witness ==
    /\ Adv.fn = "advanced" /\ Adv.pc = "done"
    /\ Adv.canvasH * AdvContentW = AdvContentH * Adv.canvasW

\* C5: after a run of advancedGeneratePDF or simpleGeneratePDF that got past
\* input validation, ended or failed, the inline overflow, height and
\* max-height of the element and of its parent are those from before the run.
C5_StylesRestored ==
    (Adv.fn \in {"advanced", "simple"} /\ Adv.validated
        /\ Adv.pc \in {"done", "failed"}) =>
        /\ elStyle = Adv.preEl
        /\ parStyle = Adv.prePar

\* C6: with the element missing or its text empty or whitespace-only,
\* advancedGeneratePDF fails at once: no style is changed, the rasterizer is
\* not invoked, no document is created and nothing is saved.
C6_NoContentFailsEarly ==
    (Adv.fn = "advanced" /\ (~Adv.hasElem \/ WhitespaceOnly(Adv.text))) =>
        /\ Adv.pc = "failed"
        /\ Adv.err.msg \in {"No element provided", "Element has no content"}
        /\ elStyle = Adv.preEl /\ parStyle = Adv.prePar
        /\ ~Called(Adv, "html2canvas")
        /\ ~Adv.pdf /\ Adv.pages = <<>> /\ Adv.saved = 0

C6_Witness ==
    /\ Adv.fn = "advanced" /\ Adv.hasElem
    /\ Adv.text = <<" ", " ">>
    /\ Adv.pc = "failed"

\* C7: pages are appended in increasing page index order, one image each, and
\* the slice on a later page starts at a strictly greater source row.
C7_PageOrder ==
    (Adv.fn = "advanced" /\ Adv.pdf) =>
        /\ \A i \in 1..Len(Adv.pages) :
              /\ Len(Adv.pages[i]) <= 1
              /\ Adv.pages[i] # <<>> => Adv.pages[i][1].page = i - 1
              /\ i < Len(Adv.pages) => Adv.pages[i] # <<>>
        /\ \A i \in 1..Len(Adv.pages), k \in 1..Len(Adv.pages) :
              (i < k /\ Adv.pages[k] # <<>>) =>
                  RLt(Adv.pages[i][1].yStart, Adv.pages[k][1].yStart)

C7_Witness ==
    /\ Adv.fn = "advanced" /\ Adv.pc = "done"
    /\ Len(Adv.pages) >= 3

\* C8: a canvas of width 0 or height 0 makes advancedGeneratePDF fail with the
\* capture error, not the no-content error; by then the styles are restored,
\* no document exists, no page is built and nothing is saved.
C8_EmptyCanvas ==
    (Adv.fn = "advanced" /\ Adv.captured /\ (Adv.canvasW = 0 \/ Adv.canvasH = 0)) =>
        /\ Adv.pc = "failed"
        /\ Adv.err.msg = "Failed to capture content - canvas is empty"
        /\ Adv.err.msg \notin {"No element provided", "Element has no content"}
        /\ elStyle = Adv.preEl /\ parStyle = Adv.prePar
        /\ ~Adv.pdf /\ Adv.pages = <<>> /\ Adv.slices = <<>> /\ Adv.saved = 0

C8_Witness ==
    /\ Adv.fn = "advanced" /\ Adv.captured
    /\ Adv.canvasW > 0 /\ Adv.canvasH = 0
    /\ Adv.preEl.maxHeight = "600px" /\ Adv.prePar.overflow = "auto"

\* C9: when pdf.save throws in advancedGeneratePDF the failure is recovered
\* locally and the call completes without error.
C9_SaveFailureRecovered ==
    (Adv.fn = "advanced" /\ Called(Adv, "save")) => Adv.pc = "done"

(***************************************************************************)
(* Properties of generatePDF, under SpecGenerate.                          *)
(***************************************************************************)
Gen == run[1]

FallbackOrder ==
    <<"output", "createObjectURL", "appendChild", "click", "removeChild",
      "revokeObjectURL">>

IsFallbackCall(e) == e.op \notin {"progress", "catch"}

\* the calls made after pdf.save threw
AfterSaveError(log) ==
    LET at == CHOOSE i \in 1..Len(log) : log[i].op = "saveError"
    IN  Ops(SelectSeq(SubSeq(log, at + 1, Len(log)), IsFallbackCall))

SaveThrew == Gen.fn = "generate" /\ Called(Gen, "saveError")

\* C10 as stated: after pdf.save throws, the fallback steps run in order and
\* generatePDF reports success and returns without throwing.
C10_FallbackAlwaysReturns ==
    SaveThrew =>
        /\ IsPrefix(AfterSaveError(Gen.log), FallbackOrder)
        /\ Gen.pc # "failed"

\* C10 (amended): after pdf.save throws, the fallback steps run in the order
\* export blob, create URL, attach link, click, detach link, revoke URL; when
\* all of them complete, generatePDF reports the final success message and
\* returns without throwing, the link detached and the URL revoked; it throws
\* only when the blob export or the URL creation throws.
C10_Fallback ==
    SaveThrew =>
        LET after == AfterSaveError(Gen.log)
        IN  /\ IsPrefix(after, FallbackOrder)
            /\ after = FallbackOrder <=> Gen.pc = "done"
            /\ Gen.pc = "done" =>
                  /\ Gen.link = "detached" /\ Gen.url = "revoked"
                  /\ Gen.downloads = 1
                  /\ Gen.err = NoError
                  /\ Gen.cb => Gen.log[Len(Gen.log)] = Progress("PDF generated successfully!")
            /\ Gen.pc = "failed" =>
                  /\ after # <<>>
                  /\ after[Len(after)] \in {"output", "createObjectURL"}
                  /\ Gen.log[Len(Gen.log)].op = "catch"

C10_Witness ==
    /\ SaveThrew /\ Gen.pc = "done" /\ Gen.cb
    /\ Gen.url = "revoked" /\ Gen.link = "detached"

\* C11: when canvas.toDataURL answers the placeholder "data:," or a string of
\* fewer than 100 characters, generatePDF fails with the image error before
\* the assembly of the PDF: no document is created, no image is added, nothing
\* is saved or downloaded.
C11_DegenerateImageData ==
    (Gen.fn = "generate"
        /\ \E i \in 1..Len(Gen.log) :
              /\ Gen.log[i].op = "toDataURL"
              /\ (Gen.log[i].msg = "data:," \/ Gen.log[i].k < MinImgDataLen)) =>
        /\ Gen.pc = "failed"
        /\ Gen.err.msg = "Failed to generate image from content. The content might be empty or not properly rendered."
        /\ ~Gen.pdf /\ Gen.pages = <<>>
        /\ ~Called(Gen, "newPdf") /\ ~Called(Gen, "addImage") /\ ~Called(Gen, "addPage")
        /\ ~Called(Gen, "save") /\ Gen.saved = 0 /\ Gen.downloads = 0

C11_Witness ==
    /\ Gen.fn = "generate" /\ Gen.pc = "failed"
    /\ \E i \in 1..Len(Gen.log) :
          /\ Gen.log[i].op = "toDataURL"
          /\ Gen.log[i].msg = "" /\ Gen.log[i].k = MinImgDataLen - 1
    /\ Gen.canvasW > 0 /\ Gen.canvasH > 0

IsProgress(e) == e.op = "progress"

\* the messages the progress callback received, in order
Messages(log) == SelectSeq(log, IsProgress)

AdvPhases ==
    <<Progress("Preparing content..."), Progress("Capturing content..."),
      Progress("Creating PDF...")>>

\* the messages of a complete run that built n pages in the loop (n = 0: the
\* single-page branch)
AdvMessages(n) ==
    IF n = 0
    THEN AdvPhases \o <<Progress("PDF created successfully!")>>
    ELSE AdvPhases \o [k \in 1..n |-> ProgressKN("Creating page", k, n)]
                   \o <<ProgressKN("PDF created with pages", n, n)>>

IsTerminal(e) ==
    /\ e.op = "progress"
    /\ e.msg \in {"PDF created successfully!", "PDF created with pages"}

\* C12: a successful run of advancedGeneratePDF with a callback reports
\* "Preparing content...", "Capturing content...", "Creating PDF...", then
\* "PDF created successfully!" or "Creating page k of n..." for k = 1..n and
\* "PDF created with n pages!"; nothing follows the terminal message, and only
\* runs that complete without error report the terminal message.
C12_ProgressSequence ==
    (Adv.fn = "advanced" /\ Adv.cb) =>
        /\ Adv.pc = "done" => Messages(Adv.log) = AdvMessages(Adv.totalPages)
        /\ \A i \in 1..Len(Adv.log) :
              IsTerminal(Adv.log[i]) =>
                  /\ \A k \in (i + 1)..Len(Adv.log) : ~IsProgress(Adv.log[k])
                  /\ Adv.pc # "failed"

GenAvailW == Gen.pageW - 2 * GenMargin
GenAvailH == Gen.pageH - 2 * GenMargin
GenLoopExited == Gen.fn = "generate" /\ Called(Gen, "save")

\* the slice-based page count of advancedGeneratePDF for the same raster and
\* content area
SlicePageCount(imgH, contentH) ==
    IF AdvFitsOnePage(imgH, contentH) THEN 1 ELSE TotalPages(imgH, contentH)

\* C15: the overlap loop of generatePDF ends, and when it has ended the
\* document has max(1, ceil(imgH / availableHeight)) pages, the count of the
\* slice-based formula, exact multiples included; while it runs, heightLeft is
\* imgH minus one availableHeight per page emitted and the count never
\* exceeds that number.
C15_OverlapPageCount ==
    (Gen.fn = "generate" /\ Gen.pdf /\ Gen.pageNumber >= 1) =>
        LET n == SlicePageCount(Gen.imgH, GenAvailH)
        IN  /\ n = IF Gen.canvasH * GenAvailW <= Gen.canvasW * GenAvailH THEN 1
                   ELSE CeilDiv(Gen.canvasH * GenAvailW, Gen.canvasW * GenAvailH)
            /\ Len(Gen.pages) <= n
            /\ Gen.pc = "gen_loop" =>
                  Gen.heightLeft = RSub(Gen.imgH, RInt(Len(Gen.pages) * GenAvailH))
            /\ GenLoopExited => Len(Gen.pages) = n

C15_Witness ==
    /\ GenLoopExited /\ Gen.pc = "done"
    /\ Len(Gen.pages) = 2
    /\ Gen.canvasH * GenAvailW = 2 * Gen.canvasW * GenAvailH

\* the rows of the placed image, in image millimetres, that lie in the content
\* box [margin, pageH - margin) of its page
Band(img) ==
    [lo |-> RSub(RInt(GenMargin), img.y),
     hi |-> RAdd(RSub(RInt(GenMargin), img.y), RInt(GenAvailH))]

\* C16: page k of generatePDF holds the whole unsliced image at
\* y = margin - (k-1) * availableHeight, so its content box shows the band
\* [(k-1) * availableHeight, k * availableHeight); the band of a page ends
\* where the band of the next begins, and after the loop the bands cover
\* [0, imgH).
C16_OverlapBands ==
    (Gen.fn = "generate" /\ Gen.pdf) =>
        /\ \A k \in 1..Len(Gen.pages) :
              /\ Len(Gen.pages[k]) <= 1
              /\ k < Len(Gen.pages) => Gen.pages[k] # <<>>
              /\ Gen.pages[k] # <<>> =>
                    LET img == Gen.pages[k][1]
                    IN  /\ ~img.sliced /\ img.h = Gen.imgH /\ img.w = GenAvailW
                        /\ img.x = GenMargin
                        /\ img.y = RSub(RInt(GenMargin), RInt((k - 1) * GenAvailH))
                        /\ Band(img).lo = RInt((k - 1) * GenAvailH)
                        /\ Band(img).hi = RInt(k * GenAvailH)
                        /\ k > 1 => Band(Gen.pages[k - 1][1]).hi = Band(img).lo
        /\ GenLoopExited =>
              /\ Gen.pages[Len(Gen.pages)] # <<>>
              /\ Band(Gen.pages[1][1]).lo = RInt(0)
              /\ RLe(Gen.imgH, Band(Gen.pages[Len(Gen.pages)][1]).hi)
              /\ RLt(Band(Gen.pages[Len(Gen.pages)][1]).lo, Gen.imgH)

C16_Witness ==
    /\ GenLoopExited /\ Gen.pc = "done"
    /\ Len(Gen.pages) = 3
    /\ Gen.imgH[2] # 1
    /\ RLt(Gen.imgH, Band(Gen.pages[3][1]).hi)

(***************************************************************************)
(* Properties of the preparation waits, under SpecPrepare.                 *)
(***************************************************************************)
Prep == run[1]

IsWait(e) == e.op \in {"raf", "timeout", "fonts.ready", "images"}

\* the waits a run completed before it called html2canvas (all its waits when
\* it has not called it)
WaitsBeforeCapture(log) ==
    LET at == IF \E i \in 1..Len(log) : log[i].op = "html2canvas"
              THEN CHOOSE i \in 1..Len(log) : log[i].op = "html2canvas"
              ELSE Len(log) + 1
    IN  SelectSeq(SubSeq(log, 1, at - 1), IsWait)

AdvWaits ==
    <<Call("raf"), Wait("timeout", AdvDelayMs), Call("raf"), Wait("timeout", AdvDelayMs)>>

GenWaits(fonts, images) ==
    <<Call("raf"), Call("raf")>>
        \o (IF fonts THEN <<Call("fonts.ready")>> ELSE <<>>)
        \o (IF images THEN <<Call("images")>> ELSE <<>>)
        \o <<Wait("timeout", GenSettleMs)>>

\* C17 as stated: html2canvas is called only after frame, 200ms, frame, 200ms
\* (advancedGeneratePDF) or frame, frame, font readiness, the loads of the
\* images, 500ms (prepareElementForCapture), none of them skipped.
C17_NoWaitSkipped ==
    Called(Prep, "html2canvas") =>
        /\ Prep.fn = "advanced" => WaitsBeforeCapture(Prep.log) = AdvWaits
        /\ Prep.fn = "generate" =>
              WaitsBeforeCapture(Prep.log) = GenWaits(TRUE, Prep.hasImages)

\* C17 (amended): the waits run one after another in the fixed order, and
\* html2canvas is called only after all of them: frame, 200ms, frame, 200ms in
\* advancedGeneratePDF; frame, frame, font readiness when document.fonts
\* exists, the loads of the images when the element has images, 500ms in
\* prepareElementForCapture. Image events fall inside the image wait only.
C17_WaitsInOrder ==
    LET waits == WaitsBeforeCapture(Prep.log)
        expected == IF Prep.fn = "advanced" THEN AdvWaits
                    ELSE GenWaits(Prep.fontsApi, Prep.hasImages)
    IN  /\ Prep.fn = "advanced" => IsPrefix(waits, expected)
        /\ (Prep.fn = "generate" /\ Prep.pc \notin {"gen_raf1", "gen_raf2"}) =>
              IsPrefix(waits, expected)
        /\ Called(Prep, "html2canvas") =>
              /\ waits = expected
              /\ SelectSeq(Prep.log, IsWait) = waits
        /\ \A i \in 1..Len(Prep.log) :
              Prep.log[i].op = "image" =>
                  /\ Len(SelectSeq(SubSeq(Prep.log, 1, i), IsWait))
                        = IF Prep.fontsApi THEN 3 ELSE 2
                  /\ \/ Prep.pc = "gen_images"
                     \/ \E k \in (i + 1)..Len(Prep.log) : Prep.log[k].op = "images"

C17_Witness ==
    /\ Prep.fn = "generate" /\ Called(Prep, "html2canvas")
    /\ ~Prep.fontsApi /\ Prep.hasImages /\ Prep.waited = {1, 2}
    /\ WaitsBeforeCapture(Prep.log) = GenWaits(FALSE, TRUE)

\* the images whose load or error event the run has seen
Fired(log) == { log[i].k : i \in { j \in 1..Len(log) : log[j].op = "image" } }

\* C18: while generatePDF is suspended in the image wait, the only step it
\* takes is the load or error event of an image still waited for; neither kind
\* of event fails the run; the wait ends with the event that leaves no image
\* waited for, when each image incomplete at the start has fired exactly one
\* of them; until then the run stays in the wait (nothing else, no timeout,
\* ends it).
C18_ImageWait ==
    [][ (run[1].fn = "generate" /\ run[1].pc = "gen_images") =>
            /\ run[1].pending # {} /\ run[1].pending \subseteq run[1].waited
            /\ Fired(run[1].log) = run[1].waited \ run[1].pending
            /\ \E i \in run[1].pending, kind \in {"load", "error"} :
                  /\ run'[1].pending = run[1].pending \ {i}
                  /\ IsPrefix(Append(run[1].log, Ev("image", kind, i, 0)), run'[1].log)
            /\ run'[1].err = NoError
            /\ run'[1].pc = IF run'[1].pending = {} THEN "gen_settle" ELSE "gen_images"
            /\ run'[1].pc = "gen_settle" =>
                  /\ Fired(run'[1].log) = run[1].waited
                  /\ Len(SelectSeq(run'[1].log, LAMBDA e : e.op = "image"))
                        = Cardinality(run[1].waited)
                  /\ run'[1].log[Len(run'[1].log)] = Call("images")
      ]_vars

C18_Witness ==
    /\ Gen.fn = "generate" /\ Gen.pc = "gen_settle" /\ Gen.waited = {1, 2}
    /\ \E i \in 1..(Len(Gen.log) - 1) :
          /\ Gen.log[i] = Ev("image", "error", 2, 0)
          /\ Gen.log[i + 1] = Ev("image", "load", 1, 0)

\* C20: with the text of the element empty or whitespace-only, generatePDF
\* fails with the no-content error before prepareElementForCapture begins (no
\* scroll reset, no frame, font, image or timer wait) and without calling
\* html2canvas.
C20_NoContentBeforePreparer ==
    (Gen.fn = "generate" /\ Gen.hasElem /\ WhitespaceOnly(Gen.text)) =>
        /\ Gen.pc = "failed"
        /\ Gen.err.msg = "The element appears to have no content to capture."
        /\ ~Called(Gen, "scrollTop")
        /\ SelectSeq(Gen.log, IsWait) = <<>>
        /\ ~Called(Gen, "html2canvas")

(***************************************************************************)
(* Properties of the Home component, under SpecUI.                         *)
(***************************************************************************)
RunsInFlight == { r \in RunIds : InFlight(r) }

\* C13: whatever the clicks on Download PDF, those that arrive while a run is
\* suspended included, at most one run of advancedGeneratePDF started by
\* handleGeneratePDF is in flight; while one is, the button is disabled.
C13_OneRunInFlight ==
    /\ Cardinality(RunsInFlight) <= 1
    /\ RunsInFlight # {} => (ui.isGenerating /\ ui.rendered)

C13_Witness ==
    /\ InFlight(1) /\ run[1].pc = "adv_capture"
    /\ ui.triggers = 3 /\ ui.dropped = 2 /\ ui.alerts = <<>> /\ ui.timers = 0

\* the await of handleGeneratePDF settles in this step
HandlerEnds(r) ==
    /\ run[r].fn = "advanced" /\ run[r].pc \in {"done", "failed"}
    /\ run'[r].pc = "idle"

\* this step is a click whose handler throws for want of content
ClickWithoutContent ==
    /\ ui'.triggers = ui.triggers + 1
    /\ ~ui.rendered /\ ui.previewRef /\ NoTextContent(ui.text)

\* C14: a call of handleGeneratePDF that set isGenerating leaves it false when
\* it ends, by success or by failure; a failure shows one alert, which starts
\* with "Failed to generate PDF. " and carries the error's message, and clears
\* the progress message; a success shows none; isGenerating is true only
\* while a call is suspended at its await.
C14_GeneratingReset ==
    [][ /\ \A r \in RunIds : HandlerEnds(r) =>
              /\ ~ui'.isGenerating
              /\ run[r].pc = "failed" =>
                    /\ ui'.alerts = Append(ui.alerts,
                                           <<"Failed to generate PDF. ", run[r].err.msg>>)
                    /\ ui'.progressMessage = Progress("")
              /\ run[r].pc = "done" => ui'.alerts = ui.alerts
        /\ ClickWithoutContent =>
              /\ ~ui'.isGenerating
              /\ Len(ui'.alerts) = Len(ui.alerts) + 1
              /\ ui'.alerts[Len(ui'.alerts)][1] = "Failed to generate PDF. "
              /\ ui'.progressMessage = Progress("")
        /\ ui'.isGenerating => \E r \in RunIds : InFlight(r)'
        /\ (\A r \in RunIds : ~HandlerEnds(r)) /\ ~ClickWithoutContent =>
              ui'.alerts = ui.alerts
      ]_vars

C14_Witness ==
    /\ RunsInFlight = {} /\ ~ui.isGenerating
    /\ ui.alerts = << <<"Failed to generate PDF. ", "save failed">> >>
    /\ ui.timers = 1
    /\ ui.progressMessage = Progress("")

(***************************************************************************)
(* Properties of two overlapping runs, under SpecRace.                     *)
(***************************************************************************)
\* run r restores the styles in this step
Restores(r) ==
    run[r].fn = "advanced" /\ run[r].pc = "adv_capture" /\ run'[r].captured

\* run r took its snapshot while the overrides of run q were in effect
SnapshotOfOverrides(r, q) ==
    /\ run[q].fn = "advanced" /\ run[q].validated
    /\ run[r].orig = AdvSnapshot(AdvOverrideEl(run[q].preEl),
                                 AdvOverridePar(run[q].prePar))

\* C19: when a run of advancedGeneratePDF that took its snapshot while the
\* overrides of another run on the same element were in effect restores after
\* that other run has restored, it puts the override values back: the element
\* and its parent end with overflow visible, height auto and (the element)
\* max-height none, not with the values from before the first run.
C19_StyleRace ==
    [][ \A r \in RunIds, q \in RunIds :
            (r # q /\ Restores(r) /\ run[q].captured /\ SnapshotOfOverrides(r, q)) =>
                /\ elStyle' = AdvOverrideEl(run[q].preEl)
                /\ parStyle' = AdvOverridePar(run[q].prePar)
      ]_vars

C19_Witness ==
    /\ run[1].fn = "advanced" /\ run[1].pc = "done"
    /\ run[2].fn = "advanced" /\ run[2].pc = "done"
    /\ run[1].preEl = [overflow |-> "auto", height |-> "600px", maxHeight |-> "600px"]
    /\ run[1].prePar = [overflow |-> "auto", height |-> "600px", maxHeight |-> "80vh"]
    /\ run[2].orig = AdvSnapshot(AdvOverrideEl(run[1].preEl), AdvOverridePar(run[1].prePar))
    /\ elStyle = [overflow |-> "visible", height |-> "auto", maxHeight |-> "none"]
    /\ parStyle = [overflow |-> "visible", height |-> "auto", maxHeight |-> "80vh"]

(***************************************************************************)
(* Further properties of advancedGeneratePDF, under Spec.                  *)
(***************************************************************************)
\* html2canvas has been called and has not answered yet
AdvAtCapture == Adv.fn = "advanced" /\ Adv.pc = "adv_capture"

\* C21 as stated: when advancedGeneratePDF calls html2canvas, overflow is
\* "visible", height is "auto" and max-height is "none" on the element and on
\* its parent.
C21_OverridesOnBoth ==
    AdvAtCapture =>
        /\ elStyle = [overflow |-> "visible", height |-> "auto", maxHeight |-> "none"]
        /\ parStyle = [overflow |-> "visible", height |-> "auto", maxHeight |-> "none"]

\* C21 (amended): when advancedGeneratePDF calls html2canvas, overflow is
\* "visible", height is "auto" and max-height is "none" on the element, and
\* overflow is "visible" and height is "auto" on its parent; the parent's
\* max-height is the one from before the run.
C21_OverridesAtCapture ==
    AdvAtCapture =>
        /\ elStyle = [overflow |-> "visible", height |-> "auto", maxHeight |-> "none"]
        /\ parStyle.overflow = "visible" /\ parStyle.height = "auto"
        /\ parStyle.maxHeight = Adv.prePar.maxHeight

C21_Witness ==
    /\ AdvAtCapture
    /\ Adv.preEl = [overflow |-> "auto", height |-> "600px", maxHeight |-> "600px"]
    /\ Adv.prePar = [overflow |-> "auto", height |-> "600px", maxHeight |-> "80vh"]
    /\ parStyle.maxHeight = "80vh"

\* C22: a document built by the Download PDF action has 15mm margins: every
\* page image is placed at x = 15, y = 15 and is as wide as the page less 30.
C22_Margin15 ==
    \A r \in RunIds :
        (InFlight(r) /\ run[r].pdf) =>
            \A i \in 1..Len(run[r].pages) :
                \A k \in 1..Len(run[r].pages[i]) :
                    /\ run[r].pages[i][k].x = 15
                    /\ run[r].pages[i][k].y = 15
                    /\ run[r].pages[i][k].w = run[r].pageW - 30

(***************************************************************************)
(* Properties of the uploads and of the saved name, under SpecUpload.      *)
(***************************************************************************)
\* the name without its extension: up to the last ".", all of it without one
Stem(name) ==
    LET dots == { i \in 1..Len(name) : name[i] = "." }
    IN  IF dots = {} THEN name
        ELSE SubSeq(name, 1, (CHOOSE i \in dots : \A k \in dots : k <= i) - 1)

\* C23: the PDF is saved as markdown-document.pdf when no file was loaded,
\* else under the name of the loaded file with its extension replaced by
\* .pdf: the saved name ends in ".pdf" and has the stem of the original.
C23_SavedName ==
    ui.savedAs # <<>> =>
        IF ui.fileName = <<>>
        THEN ui.savedAs = DefaultPdfName
        ELSE /\ EndsWith(ui.savedAs, DotPdf)
             /\ Stem(ui.savedAs) = Stem(ui.fileName)

\* C30: once no file read is pending, the editor holds the content of the
\* file whose name is shown as loaded, the last accepted one, in whatever
\* order the reads completed.
C30_ContentOfLoadedFile ==
    (ui.reads = {} /\ ui.loaded # 0) => ui.markdownContent = ui.loaded

\* C24: every slice bitmap of the multi-page loop has canvasW columns and
\* yEnd - yStart rows, and the source rectangle drawn into it has the width
\* and the height of the bitmap, also when contentH * canvasH / imgH is not a
\* whole number of rows.
C24_SliceBitmap ==
    Adv.fn = "advanced" =>
        \A i \in 1..Len(Adv.slices) :
            /\ Adv.slices[i].w = Adv.canvasW
            /\ RInt(Adv.slices[i].h) = RSub(Adv.slices[i].yEnd, Adv.slices[i].yStart)
            /\ Adv.slices[i].srcW = Adv.slices[i].w
            /\ Adv.slices[i].srcH = RInt(Adv.slices[i].h)

\* the images of the document in page order, and the sum of their heights
RECURSIVE Flatten(_)
Flatten(pages) ==
    IF pages = <<>> THEN <<>> ELSE Head(pages) \o Flatten(Tail(pages))
RECURSIVE SumH(_)
SumH(imgs) ==
    IF imgs = <<>> THEN RInt(0) ELSE RAdd(Head(imgs).h, SumH(Tail(imgs)))
AdvImages == Flatten(Adv.pages)

\* C25: every image of advancedGeneratePDF is placed with width imgW and
\* rendered height sliceHeight * imgW / canvasW; the rendered height never
\* exceeds contentH, every page except the last has rendered height exactly
\* contentH, and once all pages are placed the rendered heights sum to imgH.
C25_RenderedHeights ==
    (Adv.fn = "advanced" /\ Adv.pdf) =>
        /\ \A i \in 1..Len(AdvImages) :
              /\ AdvImages[i].w = AdvContentW
              /\ AdvImages[i].h =
                    RDiv(RMul(RSub(AdvImages[i].yEnd, AdvImages[i].yStart),
                              RInt(AdvContentW)), RInt(Adv.canvasW))
              /\ RLe(AdvImages[i].h, RInt(AdvContentH))
              /\ (Adv.totalPages > 0 /\ i < Adv.totalPages) =>
                    AdvImages[i].h = RInt(AdvContentH)
        /\ Adv.pc \in {"adv_save", "done"} => SumH(AdvImages) = Adv.imgH

C25_Witness ==
    /\ Adv.fn = "advanced" /\ Adv.pc = "done"
    /\ Len(AdvImages) = 3
    /\ AdvImages[1].h = RInt(AdvContentH)
    /\ RLt(AdvImages[3].h, RInt(AdvContentH))
    /\ AdvImages[2].yStart[2] # 1

\* the phase an entry of the log belongs to: 2 capture, 3 style restore,
\* 4 pagination, 5 save; 0 for progress reports, waits and the catch
Phase(e) ==
    CASE e.op = "html2canvas" -> 2
      [] e.op = "restore" -> 3
      [] e.op \in {"newPdf", "addPage", "addImage"} -> 4
      [] e.op = "save" -> 5
      [] OTHER -> 0
IsPhase(e) == Phase(e) # 0
PhaseLog(log) == SelectSeq(log, IsPhase)
CountOp(log, op) == Cardinality({ i \in 1..Len(log) : log[i].op = op })
AdvPagesDue == IF Adv.totalPages = 0 THEN 1 ELSE Adv.totalPages

\* C26: in every run of advancedGeneratePDF the phases come in the order style
\* override, capture, style restore, pagination, save; the document is saved
\* at most once, only after all totalPages page images have been added, and
\* never in a run that fails before or during pagination.
C26_PhaseOrder ==
    Adv.fn = "advanced" =>
        LET ph == PhaseLog(Adv.log)
        IN  /\ \A i \in 1..(Len(ph) - 1) : Phase(ph[i]) <= Phase(ph[i + 1])
            /\ CountOp(Adv.log, "html2canvas") <= 1
            /\ CountOp(Adv.log, "restore") <= 1
            /\ CountOp(Adv.log, "save") <= 1
            /\ ph # <<>> =>
                  /\ Adv.validated
                  /\ Adv.orig = AdvSnapshot(Adv.preEl, Adv.prePar)
                  /\ Phase(ph[1]) = 2
            /\ AdvAtCapture =>
                  /\ elStyle = AdvOverrideEl(Adv.preEl)
                  /\ parStyle = AdvOverridePar(Adv.prePar)
            /\ Called(Adv, "newPdf") => Called(Adv, "restore")
            /\ Called(Adv, "save") =>
                  /\ Adv.pdf
                  /\ Len(Adv.pages) = AdvPagesDue
                  /\ Len(AdvImages) = AdvPagesDue
            /\ Adv.saved <= 1
            /\ Adv.saved = 1 <=> Adv.pc = "done"
            /\ Adv.saved = 1 => Called(Adv, "save")
            /\ (Adv.pc = "failed" /\ ~Called(Adv, "save")) => Adv.saved = 0

C26_Witness ==
    /\ Adv.fn = "advanced" /\ Adv.pc = "done" /\ Adv.saved = 1
    /\ Adv.totalPages = 3 /\ Len(AdvImages) = 3
    /\ [i \in 1..Len(PhaseLog(Adv.log)) |-> Phase(PhaseLog(Adv.log)[i])]
          = <<2, 3, 4, 4, 4, 4, 4, 4, 5>>

\* the slice-based loop of run 1 has completed at least one iteration and has
\* not been left through the catch
AdvAfterIteration ==
    /\ Adv.fn = "advanced" /\ Adv.totalPages > 0 /\ Adv.pageNum >= 1
    /\ Adv.pc \in {"adv_loop", "adv_save", "done"}

\* C27: after each iteration of the slice-based loop the number of images
\* placed equals the number of pages of the document: addPage was called for
\* every page index above 0 and not for index 0, each page holds exactly one
\* image, and every image is placed at (margin, margin) with width
\* contentW = pageWidth - 2 * margin.
C27_OneImagePerPage ==
    AdvAfterIteration =>
        /\ Len(Adv.pages) = Adv.pageNum
        /\ Len(AdvImages) = Len(Adv.pages)
        /\ CountOp(Adv.log, "addPage") = Adv.pageNum - 1
        /\ \A i \in 1..Len(Adv.pages) :
              /\ Len(Adv.pages[i]) = 1
              /\ Adv.pages[i][1].page = i - 1
              /\ Adv.pages[i][1].x = Adv.margin
              /\ Adv.pages[i][1].y = Adv.margin
              /\ Adv.pages[i][1].w = Adv.pageW - 2 * Adv.margin

C27_Witness ==
    /\ AdvAfterIteration /\ Adv.pc = "adv_loop"
    /\ Adv.pageNum = 2 /\ Adv.totalPages = 3
    /\ Len(Adv.pages) = 2 /\ Len(AdvImages) = 2

\* the words "canvas" and "image" in the messages that reach the catch block
SaysCanvas(msg) ==
    msg \in { "Failed to capture content - canvas is empty. The element might not be visible or rendered properly.",
              "library: canvas failure", "library: image of canvas failure" }
SaysImage(msg) ==
    msg \in { "Failed to generate image from content. The content might be empty or not properly rendered.",
              "library: image failure", "library: image of canvas failure" }
GenFailed == Gen.fn = "generate" /\ Gen.pc = "failed"
\* the capture came back with a zero dimension / the encoding was degenerate
GenZeroDimension ==
    GenFailed /\ Gen.captured /\ (Gen.canvasW = 0 \/ Gen.canvasH = 0)
GenDegenerateEncoding ==
    /\ GenFailed /\ Len(Gen.log) >= 2
    /\ Gen.log[Len(Gen.log) - 1].op = "toDataURL"
    /\ \/ Gen.log[Len(Gen.log) - 1].msg = "data:,"
       \/ Gen.log[Len(Gen.log) - 1].k < MinImgDataLen

\* C28: a failure inside generatePDF reaches the caller as exactly one thrown
\* Error: an Error whose message contains "canvas" is wrapped as "Canvas
\* generation failed", otherwise one whose message contains "image" as "Image
\* processing failed", any other Error is rethrown unchanged and a value that
\* is not an Error is replaced by the generic Error; the zero-dimension
\* failure is a canvas failure and the degenerate-encoding failure an image
\* failure.  A throw of pdf.save alone never ends the run as failed.
C28_ErrorClassification ==
    /\ GenFailed =>
        /\ CountOp(Gen.log, "catch") = 1
        /\ Gen.log[Len(Gen.log)].op = "catch"
        /\ Gen.err.isError
        /\ IF ~Gen.thrown.isError
           THEN Gen.err = Error("An unexpected error occurred during PDF generation. Please try again.")
           ELSE /\ Gen.err.msg = Gen.thrown.msg
                /\ Gen.err.wrap =
                      IF SaysCanvas(Gen.thrown.msg) THEN "Canvas generation failed"
                      ELSE IF SaysImage(Gen.thrown.msg) THEN "Image processing failed"
                      ELSE ""
        /\ GenZeroDimension => Gen.err.wrap = "Canvas generation failed"
        /\ GenDegenerateEncoding => Gen.err.wrap = "Image processing failed"
    /\ (Gen.fn = "generate" /\ Gen.pc # "failed") =>
          /\ Gen.err = NoError
          /\ ~Called(Gen, "catch")
    /\ (Gen.fn = "generate" /\ Gen.pc = "gen_fb_blob") => Gen.log[Len(Gen.log)].op = "saveError"

C28_Witness ==
    /\ GenFailed /\ ~Called(Gen, "saveError")
    /\ Gen.thrown = Error("library: image of canvas failure")
    /\ Gen.err.wrap = "Canvas generation failed"

\* a step in which a run in flight reports progress, the message shown
\* afterwards being the last one it reported in that step
OwnReport ==
    \E r \in RunIds :
        /\ InFlight(r)
        /\ Len(Messages(run'[r].log)) > Len(Messages(run[r].log))
        /\ ui'.progressMessage = Messages(run'[r].log)[Len(Messages(run'[r].log))]

\* C29: while a generation run is in progress (isGenerating true before and
\* after the step) the progress message changes only by a progress report of
\* that run; in particular the 2-second clearing timer of an earlier
\* successful run does not blank it.
C29_OnlyOwnReports ==
    [][(ui.isGenerating /\ ui'.isGenerating
            /\ ui'.progressMessage # ui.progressMessage) => OwnReport]_vars

====
